---- MODULE Spec2Model ----
(***************************************************************************)
(* LLMEngine (src/engine.ts) of native-llm as a state machine.             *)
(*                                                                         *)
(* State: the four private handles of one LLMEngine instance, the chat     *)
(* history of the session the engine currently holds, the objects the      *)
(* provider (node-llama-cpp) handed out, and one record per caller with    *)
(* the position of its call at the awaits of the async methods.            *)
(* One action per synchronous stretch of code between two awaits.          *)
(***************************************************************************)
EXTENDS Naturals, Integers, Sequences, FiniteSets, TLC

(* ------------------------------ bounds -------------------------------- *)
\* calls started on one engine instance
MaxCalls == 3
\* length of the message list given to chat()
MaxMsgs == 3
\* text chunks the provider emits during one prompt
MaxChunks == 2
\* calls started on an engine that two callers use at a time
MaxOverlapCalls == 2
\* requests made on one engine when every kind of model is tried
MaxRequests == 2

(* ------------------------------ strings ------------------------------- *)
\* A model reference is a string whose case matters only through
\* toLowerCase(): text is the lower-cased string, upper tells whether the
\* original holds an upper-case letter.
Str(t, u) == [text |-> t, upper |-> u]
Lit(t) == Str(t, FALSE)
toLowerCase(s) == Str(s.text, FALSE)

\* An optional field: None is the JavaScript value undefined, Some(v) a value
None == <<>>
Some(v) == <<v>>
\* a ?? b
Nullish(a, b) == IF a = None THEN b ELSE a[1]
\* JavaScript truthiness of an optional string: undefined and "" are falsy
Truthy(s) == s # None /\ s[1] # ""
\* JavaScript truthiness of an optional number: undefined and 0 are falsy
TruthyNumber(x) == x # None /\ x[1] # 0

(* ------------------------------ catalog ------------------------------- *)
NoThinking == "none"

MODELS ==
  [ id \in { "gemma-3n-e2b", "gemma-3n-e4b", "gemma-3-27b", "gpt-oss-20b",
             "phi-4", "qwen3-4b", "qwen3-8b", "qwen3-14b",
             "qwen-2.5-coder-7b", "deepseek-r1-7b", "deepseek-r1-14b" } |->
      CASE id = "gemma-3n-e2b" ->
             [name |-> "Gemma 3n E2B", repo |-> "unsloth/gemma-3n-E2B-it-GGUF",
              file |-> "gemma-3n-E2B-it-Q4_K_M.gguf", thinkingMode |-> NoThinking]
        [] id = "gemma-3n-e4b" ->
             [name |-> "Gemma 3n E4B", repo |-> "unsloth/gemma-3n-E4B-it-GGUF",
              file |-> "gemma-3n-E4B-it-Q4_K_M.gguf", thinkingMode |-> NoThinking]
        [] id = "gemma-3-27b" ->
             [name |-> "Gemma 3 27B", repo |-> "unsloth/gemma-3-27b-it-GGUF",
              file |-> "gemma-3-27b-it-Q4_K_M.gguf", thinkingMode |-> NoThinking]
        [] id = "gpt-oss-20b" ->
             [name |-> "GPT-OSS 20B", repo |-> "unsloth/gpt-oss-20b-GGUF",
              file |-> "gpt-oss-20b-Q4_K_M.gguf", thinkingMode |-> NoThinking]
        [] id = "phi-4" ->
             [name |-> "Phi-4 14B", repo |-> "bartowski/phi-4-GGUF",
              file |-> "phi-4-Q4_K_M.gguf", thinkingMode |-> NoThinking]
        [] id = "qwen3-4b" ->
             [name |-> "Qwen3 4B", repo |-> "unsloth/Qwen3-4B-GGUF",
              file |-> "Qwen3-4B-Q4_K_M.gguf", thinkingMode |-> "qwen"]
        [] id = "qwen3-8b" ->
             [name |-> "Qwen3 8B", repo |-> "unsloth/Qwen3-8B-GGUF",
              file |-> "Qwen3-8B-Q4_K_M.gguf", thinkingMode |-> "qwen"]
        [] id = "qwen3-14b" ->
             [name |-> "Qwen3 14B", repo |-> "unsloth/Qwen3-14B-GGUF",
              file |-> "Qwen3-14B-Q4_K_M.gguf", thinkingMode |-> "qwen"]
        [] id = "qwen-2.5-coder-7b" ->
             [name |-> "Qwen 2.5 Coder 7B",
              repo |-> "bartowski/Qwen2.5-Coder-7B-Instruct-GGUF",
              file |-> "Qwen2.5-Coder-7B-Instruct-Q4_K_M.gguf",
              thinkingMode |-> NoThinking]
        [] id = "deepseek-r1-7b" ->
             [name |-> "DeepSeek R1 Distill 7B",
              repo |-> "bartowski/DeepSeek-R1-Distill-Qwen-7B-GGUF",
              file |-> "DeepSeek-R1-Distill-Qwen-7B-Q4_K_M.gguf",
              thinkingMode |-> "deepseek"]
        [] id = "deepseek-r1-14b" ->
             [name |-> "DeepSeek R1 Distill 14B",
              repo |-> "bartowski/DeepSeek-R1-Distill-Qwen-14B-GGUF",
              file |-> "DeepSeek-R1-Distill-Qwen-14B-Q4_K_M.gguf",
              thinkingMode |-> "deepseek"] ]

MODEL_ALIASES ==
  [ a \in { "gemma", "gemma-large", "gpt-oss", "phi", "qwen", "qwen3",
            "qwen-coder", "deepseek" } |->
      CASE a = "gemma" -> "gemma-3n-e4b"
        [] a = "gemma-large" -> "gemma-3-27b"
        [] a = "gpt-oss" -> "gpt-oss-20b"
        [] a = "phi" -> "phi-4"
        [] a = "qwen" -> "qwen3-8b"
        [] a = "qwen3" -> "qwen3-8b"
        [] a = "qwen-coder" -> "qwen-2.5-coder-7b"
        [] a = "deepseek" -> "deepseek-r1-7b" ]

\* MODELS and MODEL_ALIASES are object literals: the `in` operator and a
\* property read also find what they inherit from Object.prototype. Of
\* the inherited names, constructor and __proto__ are lower-case;
\* Str("tostring", TRUE), Str("valueof", TRUE) and
\* Str("hasownproperty", TRUE) are the spellings toString, valueOf and
\* hasOwnProperty.
ObjectPrototypeKeys ==
  { Lit("constructor"), Lit("__proto__"), Str("tostring", TRUE),
    Str("valueof", TRUE), Str("hasownproperty", TRUE) }

\* the value of an inherited property: a function or Object.prototype
\* itself, no string, and as a property key the name of no property
ObjectPrototypeValue(s) == Str("Object.prototype." \o s.text, TRUE)

\* a key of the object literal itself
OwnKey(s, table) == s.upper = FALSE /\ s.text \in DOMAIN table

\* `key in MODELS` / `key in MODEL_ALIASES`
InModels(s) == OwnKey(s, MODELS) \/ s \in ObjectPrototypeKeys
InAliases(s) == OwnKey(s, MODEL_ALIASES) \/ s \in ObjectPrototypeKeys

\* MODEL_ALIASES[key] for a key that is `in MODEL_ALIASES`
AliasTarget(s) ==
  IF OwnKey(s, MODEL_ALIASES) THEN Lit(MODEL_ALIASES[s.text])
                              ELSE ObjectPrototypeValue(s)

\* MODELS[key] for a key that is `in MODELS`: an inherited value has none
\* of the fields of a descriptor, so that its repo, file and thinkingMode
\* read as undefined
ModelInfo(s) ==
  IF OwnKey(s, MODELS)
    THEN MODELS[s.text]
    ELSE [ name |-> s.text, repo |-> "undefined", file |-> "undefined",
           thinkingMode |-> NoThinking, inherited |-> TRUE ]

\* constructor: the resolved model identifier
ResolveModelId(modelOption) ==
  LET modelKey == toLowerCase(modelOption)
  IN IF InAliases(modelKey) THEN AliasTarget(modelKey)
     ELSE IF InModels(modelKey) THEN modelKey
     ELSE modelOption

\* a string built by the code, given with its exact spelling
Exact(t) == [text |-> t, exact |-> TRUE]

(* ------------------------------- state -------------------------------- *)
VARIABLES
  modelOption,     \* options.model the engine was constructed with
  modelId,         \* this.modelId, fixed by the constructor
  enableThinking,  \* this.enableThinking
  gpuLayers,       \* this.gpuLayers
  contextSize,     \* this.contextSize, None when undefined
  llama,           \* this.llama:   0 is null, 1 the Llama instance
  model,           \* this.model:   0 is null, else the id of a loaded model
  context,         \* this.context: 0 is null, else the id of a context
  session,         \* this.session: 0 is null, else the id of a chat session
  chatHistory,     \* history of the session this.session refers to
  calls,           \* per caller: the call it made last and where it stands
  n,               \* acquisition calls made by this instance so far, per kind
  ctxModel,        \* per context id: the model it was created from
  modelReleased,   \* per model id: completed model.dispose() calls
  ctxReleased,     \* per context id: completed context.dispose() calls
  nCalls,          \* calls started on this instance
  disposed         \* a dispose() call on this instance has returned

vars == << modelOption, modelId, enableThinking, gpuLayers, contextSize, llama, model, context, session,
           chatHistory, calls, n, ctxModel, modelReleased, ctxReleased,
           nCalls, disposed >>

handles == << llama, model, context, session >>
config == << modelOption, modelId, enableThinking, gpuLayers, contextSize >>
objects == << ctxModel, modelReleased, ctxReleased >>

Callers == {"A", "B"}

Roles == {"system", "user", "assistant"}
\* the content of the i-th message of a list: every message of a list has
\* a content of its own
ContentAt(i) == << "a", "b", "c", "d", "e", "f" >>[i]

\* error messages
FailedToInitialize == "Failed to initialize engine"
LastMessageMustBeUser == "Last message must be from user"
\* reading a property of null
TypeError == "TypeError"
\* a rejection of the provider call the call was awaiting
ProviderFailure(step) == step \o " rejected"
AcquisitionSteps == {"getLlama", "resolveModelFile", "loadModel", "createContext"}

InitOps == {"initialize", "generate", "generateStreaming", "chat"}
GenOps == {"generate", "generateStreaming", "chat"}

\* sampling values are kept in tenths: 7 is 0.7, 11 is 1.1
NoSampling ==
  [ temperature |-> None, topP |-> None, topK |-> None, repeatPenalty |-> None ]
NoOptions ==
  [ prompt |-> "", systemPrompt |-> None, maxTokens |-> None,
    temperature |-> None, topP |-> None, topK |-> None, repeatPenalty |-> None ]
\* no second argument handed to session.prompt() yet
NoPromptOptions ==
  [ maxTokens |-> 0, temperature |-> 0, topP |-> 0, topK |-> 0,
    repeatPenalty |-> [penalty |-> 0], stopOnAbortSignal |-> None ]
\* no argument handed to loadModel(), createContext(), LlamaChatSession yet
NoLoadOptions == [modelPath |-> Exact(""), gpuLayers |-> 0]
NoContextOptions == [model |-> 0, contextSize |-> None]
NoSessionOptions == [contextSequence |-> 0]
\* no descriptor returned
NoInfo == [name |-> Lit("")]
NoValue == [text |-> "", tokenCount |-> 0, finishReason |-> "", model |-> Lit("")]
NoEffects == [acquire |-> 0, setChatHistory |-> 0, prompt |-> 0, dispose |-> 0]

\* a caller that has made no call yet
NoCall ==
  [ op |-> "none", pc |-> "done", status |-> "none", error |-> "",
    options |-> NoOptions, messages |-> << >>,
    steps |-> << >>,          \* acquisition steps this call started, in order
    modelUri |-> Exact(""),   \* locator handed to resolveModelFile()
    modelPath |-> Exact(""),  \* path resolveModelFile() returned
    loadOptions |-> NoLoadOptions,
                              \* argument of loadModel()
    contextOptions |-> NoContextOptions,
                              \* argument of createContext()
    sessionOptions |-> NoSessionOptions,
                              \* argument of new LlamaChatSession():
                              \* the context getSequence() was called on
    createdOn |-> 0,          \* model createContext() was called on
    target |-> 0,             \* object whose dispose() is awaited
    request |-> NoOptions,    \* options generate() ran with
    promptHistory |-> << >>,  \* session history when the prompt was handed over
    prompt |-> "",            \* text handed to session.prompt()
    promptOptions |-> NoPromptOptions,
                              \* options handed to session.prompt()
    emitted |-> << >>,        \* chunks the provider emitted for the prompt
    stopReason |-> "",        \* why the provider ended the generation
    promptSession |-> 0,      \* session the prompt runs on
    generatedTokens |-> 0,
    tokens |-> << >>,         \* chunks handed to onToken, in order
    counted |-> << >>,        \* generatedTokens at each onToken invocation
    value |-> NoValue,        \* the GenerateResult returned
    info |-> NoInfo,          \* the descriptor getModelInfo() returned
    did |-> NoEffects,        \* provider-visible actions made by this call
    during |-> {},            \* the calls of other callers that were
                              \* running when this call was made
    after |-> [op |-> "none", status |-> "none", error |-> ""] ]
                              \* the caller's previous call and how it ended

\* the record of a call just made by a caller whose last call is `last`
NewCall(last, op) ==
  [NoCall EXCEPT !.op = op, !.pc = "start", !.status = "pending",
                 !.during = { calls[q].op :
                                q \in { r \in Callers : calls[r].pc # "done" } },
                 !.after = [op |-> last.op, status |-> last.status,
                            error |-> last.error]]

NoCounts ==
  [ getLlama |-> 0, resolveModelFile |-> 0, loadModel |-> 0,
    createContext |-> 0, newSession |-> 0 ]

\* constructor (the engine after `new LLMEngine(options)`)
Constructor(options) ==
  /\ modelOption = options.model
  /\ modelId = ResolveModelId(options.model)
  /\ enableThinking = Nullish(options.enableThinking, FALSE)
  /\ gpuLayers = Nullish(options.gpuLayers, -1)
  /\ contextSize = options.contextSize
  /\ llama = 0
  /\ model = 0
  /\ context = 0
  /\ session = 0
  /\ chatHistory = << >>
  /\ calls = [p \in Callers |-> NoCall]
  /\ n = NoCounts
  /\ ctxModel = << >>
  /\ modelReleased = << >>
  /\ ctxReleased = << >>
  /\ nCalls = 0
  /\ disposed = FALSE

(* --------------------------- model resolver --------------------------- *)
\* the locator of the model file: `hf:${info.repo}/${info.file}` for an
\* identifier that is `in MODELS`, else the identifier
getModelUri ==
  IF InModels(modelId)
    THEN LET info == ModelInfo(modelId)
         IN Exact("hf:" \o info.repo \o "/" \o info.file)
    ELSE modelId

\* the descriptor getModelInfo() makes up for an identifier not `in MODELS`
CustomInfo ==
  [ name |-> modelId, repo |-> "custom", file |-> modelId,
    parameters |-> "unknown", quantization |-> "unknown",
    contextLength |-> 4096, languages |-> << "en" >>,
    description |-> "Custom model" ]

\* getModelInfo() that looks the descriptor up under the model option
getModelInfoResult_OfOption ==
  IF InModels(modelOption) THEN ModelInfo(modelOption) ELSE CustomInfo

\* getModelInfo() that knows the catalog descriptor only once the model is
\* loaded
getModelInfoResult_WhenLoaded ==
  IF InModels(modelId) /\ model # 0 THEN ModelInfo(modelId) ELSE CustomInfo

\* what getModelInfo() returns
getModelInfoResult ==
  IF InModels(modelId) THEN ModelInfo(modelId) ELSE CustomInfo

(* --------------------------- prompt adapter --------------------------- *)
getThinkingMode ==
  IF InModels(modelId) THEN ModelInfo(modelId).thinkingMode ELSE NoThinking

\* preparePrompt() that prefixes the prompt of a Qwen3 model whatever
\* enableThinking is
preparePrompt_IgnoresFlag(prompt) ==
  IF getThinkingMode = "qwen" THEN "/no_think " \o prompt ELSE prompt

\* preparePrompt() that prefixes the prompt of every thinking-mode model
preparePrompt_AnyThinkingMode(prompt) ==
  IF getThinkingMode # NoThinking /\ ~enableThinking
    THEN "/no_think " \o prompt
    ELSE prompt

preparePrompt(prompt) ==
  IF getThinkingMode = "qwen" /\ ~enableThinking
    THEN "/no_think " \o prompt
    ELSE prompt

\* the token budget of a DeepSeek model left at that of the others
getDefaultMaxTokens_Flat ==
  IF getThinkingMode = "deepseek" THEN 256 ELSE 256

\* the token budget of a request without maxTokens
getDefaultMaxTokens ==
  IF getThinkingMode = "deepseek" THEN 512 ELSE 256

(* ------------------------- steps of one call -------------------------- *)
\* a failure turned into a result with finishReason "error"
Rejected_AsErrorResult(c, err) ==
  [c EXCEPT !.pc = "done", !.status = "resolved",
            !.value = [ text |-> "", tokenCount |-> 0,
                        finishReason |-> "error", model |-> modelId ]]

\* the promise of the call settles
Resolved(c) == [c EXCEPT !.pc = "done", !.status = "resolved"]
Rejected(c, err) == [c EXCEPT !.pc = "done", !.status = "rejected", !.error = err]

\* initialize() returns: a plain initialize() call is over, generate(),
\* generateStreaming() and chat() continue after `await this.initialize()`
InitializeReturned(c) ==
  IF c.op = "initialize" THEN Resolved(c) ELSE [c EXCEPT !.pc = "initialized"]

\* an acquisition step is called and awaited
Awaiting(c, step) ==
  [c EXCEPT !.pc = step, !.did.acquire = @ + 1, !.steps = Append(@, step)]

\* the path resolveModelFile() returns for a locator: the file the locator
\* was resolved (downloaded) to
ResolvedPath(modelUri) == Exact("/models/" \o modelUri.text)

\* loadModel() handed the locator instead of the resolved path
LoadOptions_Locator(c) == [modelPath |-> c.modelUri, gpuLayers |-> gpuLayers]

\* the argument of this.llama.loadModel()
LoadOptions(c) == [modelPath |-> c.modelPath, gpuLayers |-> gpuLayers]

\* the argument of this.model.createContext(): contextSize is set only
\* `if (this.contextSize)`
ContextOptions(m) ==
  [ model |-> m,
    contextSize |-> IF TruthyNumber(contextSize) THEN contextSize ELSE None ]

\* initialize() without its first two lines: getLlama() is called whatever
\* the engine holds
InitializeEntry_NoGuard(c) == Awaiting(c, "getLlama")

\* initialize() of an engine that stays unusable once dispose() returned
InitializeEntry_Terminal(c) ==
  IF model # 0 \/ disposed THEN InitializeReturned(c)
                            ELSE Awaiting(c, "getLlama")

\* initialize() that takes the engine for initialized once it holds the
\* llama instance
InitializeEntry_GuardsOnLlama(c) ==
  IF model # 0 \/ llama # 0 THEN InitializeReturned(c)
                            ELSE Awaiting(c, "getLlama")

\* initialize() that takes the engine for initialized only once it holds a
\* session
InitializeEntry_GuardsOnSession(c) ==
  IF session # 0 THEN InitializeReturned(c) ELSE Awaiting(c, "getLlama")

\* initialize(), from its entry to its first await
InitializeEntry(c) ==
  IF model # 0 THEN InitializeReturned(c) ELSE Awaiting(c, "getLlama")

\* the acquisition counters after a call was made: a call that now awaits
\* getLlama() has called it
CountEntry(c) ==
  IF c.pc = "getLlama" THEN [n EXCEPT !.getLlama = @ + 1] ELSE n

\* an engine that takes a call only when no other call is running
CanCall_OneAtATime(p) ==
  /\ \A q \in Callers : calls[q].pc = "done"
  /\ nCalls < MaxCalls

CanCall(p) == calls[p].pc = "done" /\ nCalls < MaxCalls

\* initialize(): called
initialize(p) ==
  /\ CanCall(p)
  /\ nCalls' = nCalls + 1
  /\ calls' = [calls EXCEPT ![p] = InitializeEntry(NewCall(calls[p], "initialize"))]
  /\ n' = CountEntry(calls'[p])
  /\ UNCHANGED << config, handles, chatHistory, objects, disposed >>

\* initialize(): getLlama() settled; on success resolveModelFile() is called
getLlamaSettled(p) ==
  /\ calls[p].pc = "getLlama"
  /\ \/ /\ llama' = 1
        /\ n' = [n EXCEPT !.resolveModelFile = @ + 1]
        /\ calls' = [calls EXCEPT ![p] =
                       [Awaiting(@, "resolveModelFile")
                          EXCEPT !.modelUri = getModelUri]]
     \/ /\ calls' = [calls EXCEPT ![p] = Rejected(@, ProviderFailure("getLlama"))]
        /\ UNCHANGED << llama, n >>
  /\ UNCHANGED << config, model, context, session, chatHistory, objects,
                  nCalls, disposed >>

\* initialize(): resolveModelFile() settled; on success this.llama.loadModel()
\* is called, which throws when this.llama is null by now
resolveModelFileSettled(p) ==
  /\ calls[p].pc = "resolveModelFile"
  /\ \/ /\ llama # 0
        /\ n' = [n EXCEPT !.loadModel = @ + 1]
        /\ calls' = [calls EXCEPT ![p] =
                       LET c == [calls[p] EXCEPT
                                   !.modelPath = ResolvedPath(calls[p].modelUri)]
                       IN [Awaiting(c, "loadModel")
                             EXCEPT !.loadOptions = LoadOptions(c)]]
     \/ /\ llama = 0
        /\ calls' = [calls EXCEPT ![p] = Rejected(@, TypeError)]
        /\ UNCHANGED n
     \/ /\ calls' = [calls EXCEPT ![p] =
                       Rejected(@, ProviderFailure("resolveModelFile"))]
        /\ UNCHANGED n
  /\ UNCHANGED << config, handles, chatHistory, objects, nCalls, disposed >>

\* initialize(): loadModel() settled; on success the model is stored and
\* this.model.createContext() is called
loadModelSettled(p) ==
  /\ calls[p].pc = "loadModel"
  /\ \/ LET m == Len(modelReleased) + 1
        IN /\ model' = m
           /\ modelReleased' = Append(modelReleased, 0)
           /\ n' = [n EXCEPT !.createContext = @ + 1]
           /\ calls' = [calls EXCEPT ![p] =
                          [Awaiting(@, "createContext")
                             EXCEPT !.createdOn = m,
                                    !.contextOptions = ContextOptions(m)]]
     \/ /\ calls' = [calls EXCEPT ![p] = Rejected(@, ProviderFailure("loadModel"))]
        /\ UNCHANGED << model, modelReleased, n >>
  /\ UNCHANGED << config, llama, context, session, chatHistory, ctxModel,
                  ctxReleased, nCalls, disposed >>

\* initialize(): createContext() settled; on success the context is stored,
\* the chat session is created and initialize() returns
createContextSettled(p) ==
  /\ calls[p].pc = "createContext"
  /\ \/ /\ context' = Len(ctxReleased) + 1
        /\ ctxModel' = Append(ctxModel, calls[p].createdOn)
        /\ ctxReleased' = Append(ctxReleased, 0)
        /\ session' = n.newSession + 1
        /\ chatHistory' = << >>
        /\ n' = [n EXCEPT !.newSession = @ + 1]
        /\ calls' = [calls EXCEPT ![p] =
                       InitializeReturned(
                         [@ EXCEPT !.did.acquire = @ + 1,
                                   !.steps = Append(@, "LlamaChatSession"),
                                   !.sessionOptions =
                                     [contextSequence |-> context']])]
     \/ /\ calls' = [calls EXCEPT ![p] =
                       Rejected(@, ProviderFailure("createContext"))]
        /\ UNCHANGED << context, session, chatHistory, ctxModel, ctxReleased, n >>
  /\ UNCHANGED << config, llama, model, modelReleased, nCalls, disposed >>

(* ----------------------------- generation ----------------------------- *)
Chunks == {"x", "y"}
Responses == {"Mock response"}
\* the provider ends a generation at the end of the answer or when the
\* token budget is used up; session.prompt() returns the text either way
StopReasons == {"eogToken", "maxTokens"}

SystemEntry(text) == [type |-> "system", text |-> text]

\* what a stretch of code leaves behind: the caller's record and the
\* session history
Outcome(c, h) == [call |-> c, chatHistory |-> h]

\* the sampling values merged with `||`: an explicit 0 gives way to the
\* default
PromptOptions_Or(c, options) ==
  LET Or(a, b) == IF a = None \/ a = Some(0) THEN b ELSE a[1]
  IN [ maxTokens |-> Nullish(options.maxTokens, getDefaultMaxTokens),
       temperature |-> Or(options.temperature, 7),
       topP |-> Or(options.topP, 9),
       topK |-> Or(options.topK, 40),
       repeatPenalty |-> [penalty |-> Or(options.repeatPenalty, 11)],
       stopOnAbortSignal |-> IF c.op = "generateStreaming" THEN None
                                                            ELSE Some(TRUE) ]

\* the second argument of session.prompt(): generate() sets
\* stopOnAbortSignal, generateStreaming() does not
PromptOptions(c, options) ==
  [ maxTokens |-> Nullish(options.maxTokens, getDefaultMaxTokens),
    temperature |-> Nullish(options.temperature, 7),
    topP |-> Nullish(options.topP, 9),
    topK |-> Nullish(options.topK, 40),
    repeatPenalty |-> [penalty |-> Nullish(options.repeatPenalty, 11)],
    stopOnAbortSignal |-> IF c.op = "generateStreaming" THEN None
                                                         ELSE Some(TRUE) ]

\* generate() adding the system entry to the history it finds
GenerateBody_AppendsSystem(c, options, h) ==
  LET prompt == preparePrompt(options.prompt)
      sets == Truthy(options.systemPrompt)
      h1 == IF sets THEN Append(h, SystemEntry(options.systemPrompt[1])) ELSE h
  IN Outcome([c EXCEPT !.pc = "prompt",
                       !.request = options,
                       !.prompt = prompt,
                       !.promptOptions = PromptOptions(c, options),
                       !.promptSession = session,
                       !.promptHistory = h1,
                       !.generatedTokens = 0,
                       !.did.setChatHistory = @ + (IF sets THEN 1 ELSE 0),
                       !.did.prompt = @ + 1],
             h1)

\* generate() / generateStreaming() from `const startTime` to the await of
\* session.prompt(): reached only with this.session and this.context set
GenerateBody(c, options, h) ==
  LET prompt == preparePrompt(options.prompt)
      sets == Truthy(options.systemPrompt)
      h1 == IF sets THEN << SystemEntry(options.systemPrompt[1]) >> ELSE h
  IN Outcome([c EXCEPT !.pc = "prompt",
                       !.request = options,
                       !.prompt = prompt,
                       !.promptOptions = PromptOptions(c, options),
                       !.promptSession = session,
                       !.promptHistory = h1,
                       !.generatedTokens = 0,
                       !.did.setChatHistory = @ + (IF sets THEN 1 ELSE 0),
                       !.did.prompt = @ + 1],
             h1)

\* chat() converting an assistant message like a user message
ConvertMessage_AssistantAsUser(msg) ==
  IF msg.role = "system" THEN [type |-> "system", text |-> msg.content]
  ELSE [type |-> "user", text |-> msg.content]

\* chat(): one message in the session's history format
ConvertMessage(msg) ==
  IF msg.role = "system" THEN [type |-> "system", text |-> msg.content]
  ELSE IF msg.role = "assistant"
    THEN [type |-> "model", response |-> << msg.content >>]
    ELSE [type |-> "user", text |-> msg.content]

\* chat() replacing the session history by the prefix even when it is empty
ChatBody_AlwaysSetsHistory(c, h) ==
  LET converted == [i \in 1..Len(c.messages) |-> ConvertMessage(c.messages[i])]
      lastMessage == IF converted = << >> THEN None
                     ELSE Some(converted[Len(converted)])
      prefix == IF converted = << >> THEN << >>
                ELSE SubSeq(converted, 1, Len(converted) - 1)
      c1 == [c EXCEPT !.did.setChatHistory = @ + 1]
  IN IF lastMessage = None \/ lastMessage[1].type # "user"
       THEN Outcome(Rejected(c1, LastMessageMustBeUser), prefix)
       ELSE GenerateBody(c1, [c.options EXCEPT !.prompt = lastMessage[1].text],
                         prefix)

\* chat() from the conversion of the messages on: the prefix replaces the
\* session history, the last message is checked, generate() is entered and
\* runs to the await of session.prompt()
ChatBody(c, h) ==
  LET converted == [i \in 1..Len(c.messages) |-> ConvertMessage(c.messages[i])]
      lastMessage == IF converted = << >> THEN None
                     ELSE Some(converted[Len(converted)])
      prefix == IF converted = << >> THEN << >>
                ELSE SubSeq(converted, 1, Len(converted) - 1)
      sets == Len(prefix) > 0
      h1 == IF sets THEN prefix ELSE h
      c1 == [c EXCEPT !.did.setChatHistory = @ + (IF sets THEN 1 ELSE 0)]
  IN IF lastMessage = None \/ lastMessage[1].type # "user"
       THEN Outcome(Rejected(c1, LastMessageMustBeUser), h1)
       ELSE GenerateBody(c1, [c.options EXCEPT !.prompt = lastMessage[1].text],
                         h1)

\* the code after the second `if (!this.session || !this.context)`
Body(c, h) ==
  IF c.op = "chat" THEN ChatBody(c, h) ELSE GenerateBody(c, c.options, h)

\* generate(), generateStreaming(), chat() without `await this.initialize()`
Entry_NoAutoInitialize(c) == Body(c, chatHistory)

\* generate(), generateStreaming(), chat() from entry to the first await
Entry(c) ==
  IF session = 0 \/ context = 0
    THEN Outcome(InitializeEntry(c), chatHistory)
    ELSE Body(c, chatHistory)

Called(p, c) ==
  /\ CanCall(p)
  /\ nCalls' = nCalls + 1
  /\ LET o == Entry(c)
     IN /\ calls' = [calls EXCEPT ![p] = o.call]
        /\ chatHistory' = o.chatHistory
  /\ n' = CountEntry(calls'[p])
  /\ UNCHANGED << config, handles, objects, disposed >>

generate(p, options) ==
  Called(p, [NewCall(calls[p], "generate") EXCEPT !.options = options])

generateStreaming(p, options) ==
  Called(p, [NewCall(calls[p], "generateStreaming") EXCEPT !.options = options])

chat(p, messages, options) ==
  Called(p, [NewCall(calls[p], "chat") EXCEPT !.messages = messages,
                                              !.options = options])

\* generate(), generateStreaming(), chat(): `await this.initialize()` returned
initialized(p) ==
  /\ calls[p].pc = "initialized"
  /\ LET o == IF session = 0 \/ context = 0
                THEN Outcome(Rejected(calls[p], FailedToInitialize), chatHistory)
                ELSE Body(calls[p], chatHistory)
     IN /\ calls' = [calls EXCEPT ![p] = o.call]
        /\ chatHistory' = o.chatHistory
  /\ UNCHANGED << config, handles, n, objects, nCalls, disposed >>

\* generatedTokens++
Counted(c) == [c EXCEPT !.generatedTokens = @ + 1]

\* onToken(chunk): the caller's callback receives the chunk; `counted`
\* keeps what generatedTokens is while the callback runs
onToken(c, chunk) ==
  [c EXCEPT !.tokens = Append(@, chunk),
            !.counted = Append(@, c.generatedTokens)]

\* onTextChunk of generateStreaming() calling onToken before it counts
OnTextChunk_CallbackFirst(c, chunk) ==
  IF c.op = "generateStreaming" THEN Counted(onToken(c, chunk))
                                ELSE Counted(c)

\* onTextChunk of generateStreaming() handing every chunk over twice
OnTextChunk_Twice(c, chunk) ==
  IF c.op = "generateStreaming"
    THEN onToken(onToken(Counted(c), chunk), chunk)
    ELSE Counted(c)

\* onTextChunk counting only while a callback is given
OnTextChunk_CountsStreamingOnly(c, chunk) ==
  IF c.op = "generateStreaming" THEN onToken(Counted(c), chunk) ELSE c

\* onTextChunk of generate() and of generateStreaming()
OnTextChunk(c, chunk) ==
  IF c.op = "generateStreaming" THEN onToken(Counted(c), chunk)
                                ELSE Counted(c)

\* the provider emits a text chunk of a running prompt and calls onTextChunk
textChunk(p, chunk) ==
  /\ calls[p].pc = "prompt"
  /\ Len(calls[p].emitted) < MaxChunks
  /\ calls' = [calls EXCEPT ![p] =
                 OnTextChunk([@ EXCEPT !.emitted = Append(@, chunk)], chunk)]
  /\ UNCHANGED << config, handles, chatHistory, n, objects, nCalls, disposed >>

\* a GenerateResult that tells a generation cut off at the token budget
\* from one that ended by itself
GenerateResult_ReportsLength(c, response) ==
  [ text |-> response, tokenCount |-> c.generatedTokens,
    finishReason |-> IF c.stopReason = "maxTokens" THEN "length" ELSE "stop",
    model |-> modelId ]

\* a GenerateResult naming the model the engine was constructed with
GenerateResult_ModelOption(c, response) ==
  [ text |-> response, tokenCount |-> c.generatedTokens,
    finishReason |-> "stop", model |-> modelOption ]

\* the GenerateResult of generate() and generateStreaming()
GenerateResult(c, response) ==
  [ text |-> response, tokenCount |-> c.generatedTokens,
    finishReason |-> "stop", model |-> modelId ]

\* session.prompt() settled
promptSettled(p) ==
  /\ calls[p].pc = "prompt"
  /\ \/ \E response \in Responses, reason \in StopReasons :
          LET c == [calls[p] EXCEPT !.stopReason = reason]
          IN calls' = [calls EXCEPT ![p] =
                         Resolved([c EXCEPT !.value = GenerateResult(c, response)])]
     \/ calls' = [calls EXCEPT ![p] = Rejected(@, ProviderFailure("prompt"))]
  /\ UNCHANGED << config, handles, chatHistory, n, objects, nCalls, disposed >>

(* --------------------------- getModelInfo ----------------------------- *)
\* getModelInfo(): synchronous, returns a descriptor
getModelInfo(p) ==
  /\ CanCall(p)
  /\ nCalls' = nCalls + 1
  /\ calls' = [calls EXCEPT ![p] =
                 Resolved([NewCall(calls[p], "getModelInfo")
                             EXCEPT !.info = getModelInfoResult])]
  /\ UNCHANGED << config, handles, chatHistory, n, objects, disposed >>

(* ----------------------- resetSession, dispose ------------------------ *)
\* resetSession() that leaves the session history as it is
resetSession_KeepsHistory(p) ==
  /\ CanCall(p)
  /\ nCalls' = nCalls + 1
  /\ calls' = [calls EXCEPT ![p] = Resolved(NewCall(calls[p], "resetSession"))]
  /\ UNCHANGED << config, handles, chatHistory, n, objects, disposed >>

\* resetSession(): synchronous; `this.session.setChatHistory([])` when the
\* engine holds a session
resetSession(p) ==
  /\ CanCall(p)
  /\ nCalls' = nCalls + 1
  /\ IF session # 0
       THEN /\ chatHistory' = << >>
            /\ calls' = [calls EXCEPT ![p] =
                           Resolved([NewCall(calls[p], "resetSession")
                                       EXCEPT !.did.setChatHistory = 1])]
       ELSE /\ calls' = [calls EXCEPT ![p] = Resolved(NewCall(calls[p], "resetSession"))]
            /\ UNCHANGED chatHistory
  /\ UNCHANGED << config, handles, n, objects, disposed >>

\* this.model.dispose() is called and awaited
AwaitingModelDispose(c) ==
  [c EXCEPT !.pc = "modelDispose", !.target = model, !.did.dispose = @ + 1]

\* this.context.dispose() is called and awaited
AwaitingContextDispose(c) ==
  [c EXCEPT !.pc = "contextDispose", !.target = context, !.did.dispose = @ + 1]

\* dispose() without `this.llama = null`
DisposeEnd_KeepsLlama(p, c) ==
  /\ session' = 0
  /\ llama' = llama
  /\ chatHistory' = << >>
  /\ disposed' = TRUE
  /\ calls' = [calls EXCEPT ![p] = Resolved(c)]

\* dispose(): the two assignments that end it
DisposeEnd(p, c) ==
  /\ session' = 0
  /\ llama' = 0
  /\ chatHistory' = << >>
  /\ disposed' = TRUE
  /\ calls' = [calls EXCEPT ![p] = Resolved(c)]

\* dispose() from `if (this.model)` on
DisposeModel(p, c) ==
  IF model # 0
    THEN /\ calls' = [calls EXCEPT ![p] = AwaitingModelDispose(c)]
         /\ UNCHANGED << llama, model, session, chatHistory, disposed >>
    ELSE /\ DisposeEnd(p, c)
         /\ UNCHANGED model

\* dispose() releasing the model without releasing the context first
dispose_ModelFirst(p) ==
  /\ CanCall(p)
  /\ nCalls' = nCalls + 1
  /\ DisposeModel(p, NewCall(calls[p], "dispose"))
  /\ UNCHANGED << config, context, n, objects >>

\* dispose(): called
dispose(p) ==
  /\ CanCall(p)
  /\ nCalls' = nCalls + 1
  /\ IF context # 0
       THEN /\ calls' = [calls EXCEPT ![p] =
                           AwaitingContextDispose(NewCall(calls[p], "dispose"))]
            /\ UNCHANGED << llama, model, session, chatHistory, disposed >>
       ELSE DisposeModel(p, NewCall(calls[p], "dispose"))
  /\ UNCHANGED << config, context, n, objects >>

\* dispose() that gives the context up when context.dispose() rejects
contextDisposeSettled_ClearsOnFailure(p) ==
  /\ calls[p].pc = "contextDispose"
  /\ \/ /\ ctxReleased' = [ctxReleased EXCEPT ![calls[p].target] = @ + 1]
        /\ context' = 0
        /\ DisposeModel(p, calls[p])
     \/ /\ calls' = [calls EXCEPT ![p] =
                       Rejected(@, ProviderFailure("context.dispose"))]
        /\ context' = 0
        /\ UNCHANGED << llama, model, session, chatHistory, ctxReleased,
                        disposed >>
  /\ UNCHANGED << config, n, ctxModel, modelReleased, nCalls >>

\* dispose(): context.dispose() settled
contextDisposeSettled(p) ==
  /\ calls[p].pc = "contextDispose"
  /\ \/ /\ ctxReleased' = [ctxReleased EXCEPT ![calls[p].target] = @ + 1]
        /\ context' = 0
        /\ DisposeModel(p, calls[p])
     \/ /\ calls' = [calls EXCEPT ![p] =
                       Rejected(@, ProviderFailure("context.dispose"))]
        /\ UNCHANGED << handles, chatHistory, ctxReleased, disposed >>
  /\ UNCHANGED << config, n, ctxModel, modelReleased, nCalls >>

\* dispose(): model.dispose() settled
modelDisposeSettled(p) ==
  /\ calls[p].pc = "modelDispose"
  /\ \/ /\ modelReleased' = [modelReleased EXCEPT ![calls[p].target] = @ + 1]
        /\ model' = 0
        /\ DisposeEnd(p, calls[p])
     \/ /\ calls' = [calls EXCEPT ![p] =
                       Rejected(@, ProviderFailure("model.dispose"))]
        /\ UNCHANGED << llama, model, session, chatHistory, modelReleased,
                        disposed >>
  /\ UNCHANGED << config, context, n, ctxModel, ctxReleased, nCalls >>

(* --------------------------- specifications --------------------------- *)
\* engine options with and without gpuLayers and contextSize
EngineOptionsWith(models, flags, layers, sizes) ==
  [ model : models, enableThinking : flags, gpuLayers : layers,
    contextSize : sizes ]
EngineOptions(models, flags) == EngineOptionsWith(models, flags, {None}, {None})

\* message lists of chat() up to a length, the empty one included, with
\* every sequence of roles
MessageLists(maxLen) ==
  UNION { { [i \in 1..len |-> [role |-> roles[i], content |-> ContentAt(i)]] :
              roles \in [1..len -> Roles] } : len \in 0..maxLen }

\* requests: every combination of the given prompts, system prompts, token
\* budgets and sampling values
GenerateOptions(prompts, systemPrompts, budgets, samplings) ==
  { [ prompt |-> prompt, systemPrompt |-> systemPrompt, maxTokens |-> maxTokens,
      temperature |-> sampling.temperature, topP |-> sampling.topP,
      topK |-> sampling.topK, repeatPenalty |-> sampling.repeatPenalty ] :
      prompt \in prompts, systemPrompt \in systemPrompts,
      maxTokens \in budgets, sampling \in samplings }

\* the options of chat(): a request without prompt and systemPrompt
ChatOptions(budgets, samplings) ==
  GenerateOptions({""}, {None}, budgets, samplings)

\* the steps a call takes once it is made: those of initialize(), of a
\* request and of dispose()
InitializeStep(p) ==
  \/ getLlamaSettled(p)
  \/ resolveModelFileSettled(p)
  \/ loadModelSettled(p)
  \/ createContextSettled(p)

RequestStep(p) ==
  \/ initialized(p)
  \/ \E chunk \in Chunks : textChunk(p, chunk)
  \/ promptSettled(p)

DisposeStep(p) ==
  \/ contextDisposeSettled(p)
  \/ modelDisposeSettled(p)

Step(p) == InitializeStep(p) \/ RequestStep(p) \/ DisposeStep(p)

\* Overlapping calls: two callers use one engine without waiting for each
\* other.
ConcEngineOptions == EngineOptions({Lit("gemma")}, {None})
ConcGenerateOptions ==
  GenerateOptions({"p"}, {None, Some("s")}, {None}, {NoSampling})
ConcChatOptions == ChatOptions({None}, {NoSampling})
\* message lists of chat(): those of one message, and one with a system
\* message before the user message
ConcMessageLists ==
  MessageLists(1)
    \cup { << [role |-> "system", content |-> ContentAt(1)],
              [role |-> "user", content |-> ContentAt(2)] >> }

Init == \E options \in ConcEngineOptions : Constructor(options)

Call(p) ==
  \/ initialize(p)
  \/ \E options \in ConcGenerateOptions : generate(p, options)
  \/ \E options \in ConcGenerateOptions : generateStreaming(p, options)
  \/ \E messages \in ConcMessageLists, options \in ConcChatOptions :
       chat(p, messages, options)
  \/ getModelInfo(p)
  \/ resetSession(p)
  \/ dispose(p)

Next == \E p \in Callers : (nCalls < MaxOverlapCalls /\ Call(p)) \/ Step(p)

Spec == Init /\ [][Next]_vars

\* Sequential use: one caller, each call awaited before the next is made.
SeqEngineOptions ==
  EngineOptions({Lit("gemma"), Str("qwen", TRUE)}, {None})
SeqGenerateOptions ==
  GenerateOptions({"p"}, {None, Some("s")}, {None}, {NoSampling})
SeqChatOptions == ChatOptions({None}, {NoSampling})
SeqMessageLists == MessageLists(MaxMsgs)

SeqInit == \E options \in SeqEngineOptions : Constructor(options)

SeqCall(p) ==
  \/ initialize(p)
  \/ \E options \in SeqGenerateOptions : generate(p, options)
  \/ \E options \in SeqGenerateOptions : generateStreaming(p, options)
  \/ \E messages \in SeqMessageLists, options \in SeqChatOptions :
       chat(p, messages, options)
  \/ getModelInfo(p)
  \/ resetSession(p)
  \/ dispose(p)

SeqNext == SeqCall("A") \/ Step("A")

SeqSpec == SeqInit /\ [][SeqNext]_vars

\* Requests on every kind of model: one caller sends generate(),
\* generateStreaming() and chat() requests, with and without a system
\* prompt and a token budget, to engines built for catalogued models with
\* either thinking mode or none, for aliases, for another spelling and for
\* a model file outside the catalog, with enableThinking omitted, true and
\* false.
ModelReferences ==
  { Lit("qwen3-4b"), Lit("qwen"), Str("qwen3-14b", TRUE),
    Lit("deepseek-r1-14b"), Lit("deepseek"),
    Lit("gemma-3n-e4b"), Lit("phi"), Lit("./model.gguf") }
ReqEngineOptions ==
  EngineOptions(ModelReferences, {None, Some(TRUE), Some(FALSE)})
\* sampling values of a request: every one given, each of them 0, and two
\* of the four given
ZeroSampling ==
  [ temperature |-> Some(0), topP |-> Some(0), topK |-> Some(0),
    repeatPenalty |-> Some(0) ]
SomeSampling ==
  [ temperature |-> Some(15), topP |-> None, topK |-> Some(20),
    repeatPenalty |-> None ]
ReqGenerateOptions ==
  GenerateOptions({"p"}, {None, Some(""), Some("s")}, {None, Some(100)},
                  {NoSampling})
    \cup GenerateOptions({"p"}, {None}, {None}, {ZeroSampling, SomeSampling})
ReqChatOptions ==
  ChatOptions({None, Some(100)}, {NoSampling})
    \cup ChatOptions({None}, {SomeSampling})
ReqMessageLists == MessageLists(2)

ReqInit == \E options \in ReqEngineOptions : Constructor(options)

ReqCall(p) ==
  /\ nCalls < MaxRequests
  /\ \/ \E options \in ReqGenerateOptions : generate(p, options)
     \/ \E options \in ReqGenerateOptions : generateStreaming(p, options)
     \/ \E messages \in ReqMessageLists, options \in ReqChatOptions :
          chat(p, messages, options)

ReqNext == ReqCall("A") \/ InitializeStep("A") \/ RequestStep("A")

ReqSpec == ReqInit /\ [][ReqNext]_vars

\* The model resolver on every kind of model reference: one caller asks
\* engines built for each catalogued identifier, each alias, other
\* spellings of both, model files outside the catalog and names the
\* catalog objects inherit for the descriptor, and initializes them.
CatalogReferences ==
  { Lit(id) : id \in DOMAIN MODELS } \cup { Lit(a) : a \in DOMAIN MODEL_ALIASES }
    \cup { Str("gemma", TRUE), Str("qwen3-14b", TRUE), Str("deepseek", TRUE) }
OtherReferences ==
  { Lit("/local/model.gguf"), Str("/models/custom.gguf", TRUE),
    Lit("my-model"), Lit("minimax"), Lit("gemma-fast"), Str("gemma-4", TRUE) }
\* gpuLayers and contextSize left out, 0 and another value
VariedReferences == {Lit("gemma"), Lit("/local/model.gguf")}
LayerOptions == {None, Some(0), Some(20)}
SizeOptions == {None, Some(0), Some(2048)}
CatEngineOptions ==
  EngineOptions(CatalogReferences \cup OtherReferences \cup ObjectPrototypeKeys
                  \cup { Str("constructor", TRUE) },
                {None})
    \cup EngineOptionsWith(VariedReferences, {None}, LayerOptions, SizeOptions)

CatInit == \E options \in CatEngineOptions : Constructor(options)

CatNext == getModelInfo("A") \/ initialize("A") \/ InitializeStep("A")

CatSpec == CatInit /\ [][CatNext]_vars

(* ------------------------------ claims -------------------------------- *)
AllHandlesNull == llama = 0 /\ model = 0 /\ context = 0 /\ session = 0
Ready == model # 0 /\ context # 0 /\ session # 0

\* one getLlama / resolveModelFile / loadModel / createContext / session
\* creation, and no more
OneSequence ==
  [ getLlama |-> 1, resolveModelFile |-> 1, loadModel |-> 1,
    createContext |-> 1, newSession |-> 1 ]

\* the steps of one whole initialization a call made itself: four
\* acquisition calls and the session creation
WholeSequence == [NoEffects EXCEPT !.acquire = 5]

AcquisitionFailures == { ProviderFailure(step) : step \in AcquisitionSteps }
DisposeFailures ==
  { ProviderFailure("context.dispose"), ProviderFailure("model.dispose") }

\* the caller made no call before this one
FirstCall(c) == c.after.op = "none"
\* the caller's previous call was `op` and returned without an error
DirectlyAfter(c, op) == c.after.op = op /\ c.after.status = "resolved"

\* no dispose() call has released a context or a model so far
NothingReleased ==
  /\ \A k \in DOMAIN ctxReleased : ctxReleased[k] = 0
  /\ \A m \in DOMAIN modelReleased : modelReleased[m] = 0

\* C1: in every reachable state, session and context are non-null if and
\* only if the model handle is non-null.
C1_HandlesTogether ==
  (session # 0 /\ context # 0) <=> (model # 0)

\* C2: on a fresh engine whose provider calls all succeed, initialize()
\* calls made one after another cause exactly one acquisition sequence:
\* the first call runs it once, and an initialize() call made directly
\* after an initialize() call that returned makes no provider call,
\* changes no handle and returns; the engine is then ready as long as the
\* one sequence succeeded and no dispose() call released its objects.
C2_IdempotentInitialize ==
  \A p \in Callers :
    LET c == calls[p]
    IN /\ (c.op = "initialize" /\ c.status = "resolved" /\ FirstCall(c))
            => (n = OneSequence /\ c.did = WholeSequence /\ Ready)
       /\ (c.op = "initialize" /\ DirectlyAfter(c, "initialize"))
            => /\ c.status = "resolved"
               /\ c.did = NoEffects
               /\ (n = OneSequence /\ NothingReleased) => Ready

C2_Witness ==
  /\ nCalls = 3
  /\ calls["A"].op = "initialize"
  /\ calls["A"].status = "resolved"
  /\ DirectlyAfter(calls["A"], "initialize")
  /\ n = OneSequence
  /\ Ready

\* C3: when an acquisition step of initialize() fails, initialize() rejects
\* with that failure and all four handles are null.
C3_FailureLeavesAllNull ==
  \A p \in Callers :
    (/\ calls[p].op = "initialize"
     /\ calls[p].status = "rejected"
     /\ calls[p].error \in AcquisitionFailures)
      => AllHandlesNull

\* C4: the first call on a fresh engine, when it is generate(),
\* generateStreaming() or chat(), has run exactly one initialization
\* sequence by the time it hands its prompt to the session, and the prompt
\* runs on the session that sequence created; a generate(),
\* generateStreaming(), chat() or initialize() call made directly after a
\* generation call that returned makes no acquisition call, and so does
\* every such call on an engine that some earlier call initialized.
C4_AutoInitialize ==
  \A p \in Callers :
    LET c == calls[p]
    IN /\ (c.op \in GenOps /\ FirstCall(c) /\ c.did.prompt = 1)
            => /\ n = OneSequence
               /\ c.did.acquire = 5
               /\ c.promptSession = 1
               /\ Ready
       /\ (c.op \in InitOps /\ c.after.op \in GenOps
                            /\ c.after.status = "resolved")
            => /\ c.did.acquire = 0
               /\ Ready
               /\ c.pc \in {"prompt", "done"}
               /\ c.did.prompt = 1 => c.promptSession = session
       /\ (c.op \in InitOps /\ Ready /\ c.did.acquire < 5)
            => c.did.acquire = 0

C4_Witness ==
  /\ calls["A"].op = "chat"
  /\ DirectlyAfter(calls["A"], "generateStreaming")
  /\ calls["A"].did.prompt = 1
  /\ n = OneSequence

\* C5 as stated: dispose() never raises an error and leaves all four
\* handles null, called (a) before any initialize(), (b) after a successful
\* initialize(), (c) directly after a dispose().
DisposeCase(c) ==
  \/ FirstCall(c)
  \/ DirectlyAfter(c, "initialize")
  \/ c.after.op = "dispose"

C6_DisposedIsTerminal ==
  disposed => (model = 0 /\ context = 0 /\ session = 0)

\* C6 amended: Disposed is not terminal. When dispose() returns all handles
\* are null, and a resetSession() or dispose() call made directly after it
\* leaves them null and makes no provider call; an initialize(),
\* generate(), generateStreaming() or chat() call made directly after it
\* runs the acquisition sequence again, and the handles are non-null
\* again only through the model that call loaded itself.
C6_DisposedUntilReinitialized ==
  \A p \in Callers :
    LET c == calls[p]
    IN /\ (c.op = "dispose" /\ c.status = "resolved") => AllHandlesNull
       /\ (c.op \in {"resetSession", "dispose"} /\ DirectlyAfter(c, "dispose"))
            => (AllHandlesNull /\ c.did = NoEffects /\ c.status = "resolved")
       /\ (c.op \in InitOps /\ DirectlyAfter(c, "dispose"))
            => /\ c.did.acquire >= 1
               /\ (model # 0 \/ context # 0 \/ session # 0)
                    => (c.did.acquire >= 4 /\ model = c.createdOn)
               /\ (c.op = "initialize" /\ c.status = "resolved")
                    => (Ready /\ c.did = WholeSequence)

C6_Witness ==
  /\ disposed
  /\ calls["A"].op = "initialize"
  /\ calls["A"].status = "resolved"
  /\ DirectlyAfter(calls["A"], "dispose")
  /\ Ready

\* C7: dispose() releases the context before the model; over sequential
\* calls every context and every model is released at most once, and a
\* dispose() made directly after a dispose() that returned makes no
\* provider call.
C7_ContextBeforeModelOnce ==
  /\ \A p \in Callers :
       calls[p].pc = "modelDispose"
         => /\ context = 0
            /\ \A k \in DOMAIN ctxModel :
                 ctxModel[k] = calls[p].target => ctxReleased[k] = 1
  /\ \A m \in DOMAIN modelReleased :
       /\ modelReleased[m] <= 1
       /\ modelReleased[m] = 1
            => \A k \in DOMAIN ctxModel : ctxModel[k] = m => ctxReleased[k] = 1
  /\ \A k \in DOMAIN ctxReleased : ctxReleased[k] <= 1
  /\ \A p \in Callers :
       (calls[p].op = "dispose" /\ DirectlyAfter(calls[p], "dispose"))
         => (calls[p].did.dispose = 0 /\ calls[p].status = "resolved")

C7_Witness ==
  /\ calls["A"].op = "dispose"
  /\ DirectlyAfter(calls["A"], "dispose")
  /\ calls["A"].status = "resolved"
  /\ ctxReleased = << 1 >>
  /\ modelReleased = << 1 >>
  /\ ctxModel = << 1 >>

LastIsUser(messages) ==
  Len(messages) >= 1 /\ messages[Len(messages)].role = "user"

\* C8: a chat() call with a non-empty message list whose last message is
\* not a user message always fails with "Last message must be from user".
C8_AlwaysPreconditionError ==
  \A p \in Callers :
    LET c == calls[p]
    IN (c.op = "chat" /\ Len(c.messages) >= 1 /\ ~LastIsUser(c.messages)
                      /\ c.pc = "done")
         => (c.status = "rejected" /\ c.error = LastMessageMustBeUser)

\* C9: a chat() call whose last message is not a user message is rejected
\* before it has made any initialization step, history replacement or
\* prompt dispatch.
C9_RejectedBeforeAnyAction ==
  \A p \in Callers :
    LET c == calls[p]
    IN (c.op = "chat" /\ ~LastIsUser(c.messages))
         => (c.pc = "done" /\ c.status = "rejected" /\ c.did = NoEffects)

QwenTagged == { Lit("qwen3-4b"), Lit("qwen3-8b"), Lit("qwen3-14b") }
DeepseekTagged == { Lit("deepseek-r1-7b"), Lit("deepseek-r1-14b") }
\* the call has handed its prompt to the session
Dispatched(c) == c.did.prompt >= 1
Streaming(c) == c.op = "generateStreaming"

\* C11: chat() with a single user message on a fresh engine for a model
\* without a family tag makes no history replacement call and, once it is
\* initialized, exactly one prompt dispatch, whose prompt is the message's
\* content unchanged; the session history is still empty at the dispatch.
C11_SingleUserMessage ==
  \A p \in Callers :
    LET c == calls[p]
    IN (/\ c.op = "chat" /\ FirstCall(c)
        /\ Len(c.messages) = 1 /\ LastIsUser(c.messages)
        /\ modelId \notin QwenTagged \cup DeepseekTagged)
         => /\ c.did.setChatHistory = 0
            /\ c.did.prompt <= 1
            /\ c.error # LastMessageMustBeUser
            /\ (c.pc = "prompt" \/ c.status = "resolved")
                 => /\ c.did.prompt = 1
                    /\ c.request.prompt = c.messages[1].content
                    /\ c.prompt = c.messages[1].content
                    /\ c.promptHistory = << >>

C11_Witness ==
  /\ calls["A"].op = "chat"
  /\ FirstCall(calls["A"])
  /\ calls["A"].messages = << [role |-> "user", content |-> "a"] >>
  /\ modelId = Lit("gemma-3n-e4b")
  /\ calls["A"].status = "resolved"
  /\ calls["A"].prompt = "a"

\* the request of a generate() or generateStreaming() call that has not
\* finished its initialization has neither replaced the history nor
\* handed over its prompt; a prompt is handed to an existing session
InOrder(c) ==
  /\ c.pc \in AcquisitionSteps \cup {"initialized"}
       => (c.did.setChatHistory = 0 /\ c.did.prompt = 0)
  /\ Dispatched(c)
       => (c.promptSession # 0 /\ c.did.prompt = 1 /\ c.did.setChatHistory <= 1)

\* C12 as stated: within a generate() or generateStreaming() request the
\* history is replaced after initialization and before the dispatch by
\* the single system entry of the request whenever the request has a
\* system prompt, and is not replaced when it has none.
C12_SystemPromptReplacesHistory ==
  \A p \in Callers :
    LET c == calls[p]
    IN c.op \in {"generate", "generateStreaming"}
         => /\ InOrder(c)
            /\ (Dispatched(c) /\ c.request.systemPrompt # None)
                 => /\ c.did.setChatHistory = 1
                    /\ c.promptHistory = << SystemEntry(c.request.systemPrompt[1]) >>
            /\ (Dispatched(c) /\ c.request.systemPrompt = None)
                 => c.did.setChatHistory = 0

\* C12, amended: the history is replaced by the single system entry when
\* the request has a non-empty system prompt, and is not replaced when the
\* request has no system prompt or an empty one.
C12_NonEmptySystemPromptReplacesHistory ==
  \A p \in Callers :
    LET c == calls[p]
    IN c.op \in {"generate", "generateStreaming"}
         => /\ InOrder(c)
            /\ c.request = (IF Dispatched(c) THEN c.options ELSE NoOptions)
            /\ (/\ Dispatched(c)
                /\ c.request.systemPrompt # None
                /\ c.request.systemPrompt # Some(""))
                 => /\ c.did.setChatHistory = 1
                    /\ c.promptHistory = << SystemEntry(c.request.systemPrompt[1]) >>
                    /\ c.pc = "prompt" => chatHistory = c.promptHistory
            /\ (/\ Dispatched(c)
                /\ c.request.systemPrompt \in {None, Some("")})
                 => c.did.setChatHistory = 0

\* a generate() with a system prompt right after a chat() that left turns
\* in the history
C12_Witness ==
  /\ calls["A"].op = "generate"
  /\ DirectlyAfter(calls["A"], "chat")
  /\ calls["A"].request.systemPrompt = Some("s")
  /\ calls["A"].pc = "prompt"
  /\ chatHistory = << SystemEntry("s") >>

\* the prompt of caller q is in flight on the session the engine holds
InFlight(q) ==
  /\ calls[q].pc = "prompt"
  /\ calls[q].promptSession = session
  /\ session # 0 /\ context # 0

\* C13: the engine has no mutual exclusion: whenever the prompt of one call
\* is in flight on the session of a Ready engine, a second caller's
\* generate() with a system prompt can start at once, and its first step
\* replaces the shared session history and dispatches its own prompt on
\* the same session while the first prompt is still in flight.
C13_NoMutualExclusion ==
  \A p, q \in Callers :
    (/\ p # q
     /\ InFlight(q)
     /\ calls[p].pc = "done"
     /\ nCalls < MaxOverlapCalls)
      => \E options \in ConcGenerateOptions :
           /\ options.systemPrompt = Some("s")
           /\ ENABLED (/\ generate(p, options)
                       /\ chatHistory' = << SystemEntry("s") >>
                       /\ calls'[p].pc = "prompt"
                       /\ calls'[p].promptSession = calls[q].promptSession
                       /\ calls'[q].pc = "prompt")

\* both prompts are in flight on one session, and the second call has
\* replaced the history the first prompt was dispatched with
C13_Witness ==
  /\ InFlight("A")
  /\ InFlight("B")
  /\ calls["A"].promptHistory = << >>
  /\ calls["B"].did.setChatHistory = 1
  /\ chatHistory = calls["B"].promptHistory
  /\ chatHistory # calls["A"].promptHistory

\* C14: during generateStreaming() onToken is invoked exactly once for
\* every text chunk the provider emits, with the chunk's text and in the
\* order of emission, and for no other chunk: what onToken has received is
\* at every moment the sequence of chunks emitted so far.
C14_OnTokenPerChunk ==
  \A p \in Callers :
    LET c == calls[p]
    IN /\ Streaming(c) => c.tokens = c.emitted
       /\ ~Streaming(c) => c.tokens = << >>

C14_Witness ==
  /\ Streaming(calls["A"])
  /\ calls["A"].status = "resolved"
  /\ calls["A"].emitted = << "y", "x" >>
  /\ calls["A"].tokens = << "y", "x" >>

\* C15 as stated: onToken is invoked for the i-th chunk before that chunk
\* is counted, i.e. while the counter holds i - 1.
C15_CallbackBeforeCount ==
  \A p \in Callers :
    LET c == calls[p]
    IN Streaming(c) => \A i \in DOMAIN c.counted : c.counted[i] = i - 1

\* C15, amended: the i-th chunk is counted before onToken is invoked for
\* it: the counter holds i while the callback runs.
C15_CountBeforeCallback ==
  \A p \in Callers :
    LET c == calls[p]
    IN Streaming(c)
         => /\ Len(c.counted) = Len(c.emitted)
            /\ \A i \in DOMAIN c.counted : c.counted[i] = i

C15_Witness ==
  /\ Streaming(calls["A"])
  /\ calls["A"].pc = "prompt"
  /\ calls["A"].tokens = << "x", "y" >>
  /\ calls["A"].counted = << 1, 2 >>

\* C16: the tokenCount a generate(), generateStreaming() or chat() call
\* returns is the number of chunks the provider emitted for that call's
\* own prompt, whatever was emitted for the prompt of another call; while
\* the prompt runs the call's counter is the number emitted so far.
C16_TokenCountIsChunkCount ==
  \A p \in Callers :
    LET c == calls[p]
    IN c.op \in GenOps
         => /\ c.generatedTokens = Len(c.emitted)
            /\ c.status = "resolved"
                 => /\ Dispatched(c)
                    /\ c.value.tokenCount = Len(c.emitted)
            /\ c.status # "resolved" => c.value = NoValue

\* a call has returned a count of 0 while the prompt of an overlapping
\* call has emitted two chunks
C16_Witness ==
  /\ calls["A"].op = "generate"
  /\ calls["A"].status = "resolved"
  /\ calls["A"].value.tokenCount = 0
  /\ calls["B"].op = "chat"
  /\ calls["B"].pc = "prompt"
  /\ calls["B"].promptSession = calls["A"].promptSession
  /\ Len(calls["B"].emitted) = 2

\* the call generate() would be running after its first stretch, had the
\* caller made it with these options, and the same for generateStreaming()
GenerateEntry(p, options) ==
  Entry([NewCall(calls[p], "generate") EXCEPT !.options = options])
StreamingEntry(p, options) ==
  Entry([NewCall(calls[p], "generateStreaming") EXCEPT !.options = options])

\* C17: generateStreaming() has the contract of generate(): in every state
\* in which a caller can make a call, and for every request, the two
\* methods start the same initialization or make the same history
\* replacement and dispatch the same prompt with the same token budget and
\* dispatch options; they differ in nothing but the operation's name.
C17_SameContractAsGenerate ==
  \A p \in Callers :
    calls[p].pc = "done"
      => \A options \in ReqGenerateOptions :
           LET g == GenerateEntry(p, options)
               s == StreamingEntry(p, options)
           IN /\ s.chatHistory = g.chatHistory
              /\ [s.call EXCEPT !.op = "generate"] = g.call

\* the prompt the original prompt becomes for a Qwen3 model
NoThink(prompt) == "/no_think " \o prompt
\* the prompt the caller asked for: the request's prompt, which for chat()
\* is the content of the last message
Original(c) ==
  IF c.op = "chat" THEN c.messages[Len(c.messages)].content
                   ELSE c.options.prompt

\* C18: for a catalog model with thinkingMode "qwen", every prompt
\* generate(), generateStreaming() and chat() hand to the session is
\* "/no_think " followed by the original prompt, the directive applied
\* once, when enableThinking is false or omitted, and is the original
\* prompt when enableThinking is true.
C18_QwenDirective ==
  \A p \in Callers :
    LET c == calls[p]
    IN (Dispatched(c) /\ modelId \in QwenTagged)
         => /\ ~enableThinking => c.prompt = NoThink(Original(c))
            /\ enableThinking => c.prompt = Original(c)

C18_Witness ==
  /\ modelId = Lit("qwen3-8b")
  /\ ~enableThinking
  /\ calls["A"].op = "chat"
  /\ DirectlyAfter(calls["A"], "generate")
  /\ calls["A"].pc = "prompt"
  /\ calls["A"].prompt = "/no_think b"

C20_OtherModelsUnchanged ==
  \A p \in Callers :
    LET c == calls[p]
    IN (Dispatched(c) /\ modelId \notin QwenTagged)
         => c.prompt = Original(c)

C20_Witness ==
  /\ modelId = Lit("deepseek-r1-14b")
  /\ ~enableThinking
  /\ calls["A"].op = "generate"
  /\ calls["A"].pc = "prompt"
  /\ calls["A"].prompt = "p"

\* a sampling value handed to the session: the request's own when it has
\* one, else the default (in tenths)
Sampled(given, default) == IF given = None THEN default ELSE given[1]

\* C21: each of temperature, topP, topK and repeatPenalty handed to the
\* session is the request's value when the request has one, an explicit 0
\* included, and else its default 0.7, 0.9, 40, 1.1 (7, 9, 40, 11 in
\* tenths), each resolved by itself.
C21_SamplingDefaults ==
  \A p \in Callers :
    LET c == calls[p]
        o == c.promptOptions
    IN Dispatched(c)
         => /\ o.temperature = Sampled(c.options.temperature, 7)
            /\ o.topP = Sampled(c.options.topP, 9)
            /\ o.topK = Sampled(c.options.topK, 40)
            /\ o.repeatPenalty = [penalty |-> Sampled(c.options.repeatPenalty, 11)]

\* a request with an explicit 0 for every sampling value after a chat()
\* with two of the four given
C21_Witness ==
  /\ calls["A"].op = "generateStreaming"
  /\ calls["A"].options.temperature = Some(0)
  /\ calls["A"].pc = "prompt"
  /\ calls["A"].promptOptions.temperature = 0
  /\ calls["A"].promptOptions.repeatPenalty.penalty = 0
  /\ calls["A"].after.op = "chat"

\* C22: every GenerateResult generate(), generateStreaming() or chat()
\* returns has finishReason "stop", also when the provider ended the
\* generation because the token budget was used up, and names the
\* engine's resolved model identifier; a call that has not returned has
\* no result.
C22_FinishReasonStop ==
  \A p \in Callers :
    LET c == calls[p]
    IN c.op \in GenOps
         => /\ c.status = "resolved"
                 => /\ c.value.finishReason = "stop"
                    /\ c.value.model = modelId
                    /\ c.stopReason \in StopReasons
            /\ c.status # "resolved" => c.value = NoValue

C22_Witness ==
  /\ calls["A"].op = "chat"
  /\ calls["A"].status = "resolved"
  /\ calls["A"].stopReason = "maxTokens"
  /\ calls["A"].value.finishReason = "stop"
  /\ modelOption = Lit("qwen")
  /\ calls["A"].value.model = Lit("qwen3-8b")

\* what a call awaiting `step` awaits next when the step succeeds
Proceeds(step, d) ==
  CASE step = "getLlama" -> d.pc = "resolveModelFile"
    [] step = "resolveModelFile" -> d.pc = "loadModel"
    [] step = "loadModel" -> d.pc = "createContext"
    [] step = "createContext" -> d.pc = "initialized"
    [] step = "prompt" ->
         \/ d.pc = "prompt"
         \/ /\ d.status = "resolved"
            /\ d.value.text \in Responses
            /\ d.value.finishReason = "stop"

\* C23: no failure is swallowed: a generate(), generateStreaming() or
\* chat() call that awaits an initialization step or the prompt either
\* goes on as the success of that step lets it, or is rejected with the
\* failure of that step and has no GenerateResult.
C23_NoFailureSwallowed ==
  [][ \A p \in Callers :
        LET c == calls[p]
            d == calls'[p]
        IN (/\ c.op \in GenOps
            /\ c.pc \in AcquisitionSteps \cup {"prompt"}
            /\ d # c)
             => \/ d.status = "pending" /\ Proceeds(c.pc, d)
                \/ d.status = "resolved" /\ Proceeds(c.pc, d)
                \/ /\ d.status = "rejected"
                   /\ d.pc = "done"
                   /\ d.error = ProviderFailure(c.pc)
                   /\ d.value = NoValue ]_vars

\* a chat() call rejected with the failure of loadModel()
C23_Witness ==
  /\ calls["A"].op = "chat"
  /\ calls["A"].status = "rejected"
  /\ calls["A"].error = ProviderFailure("loadModel")
  /\ calls["A"].value = NoValue
  /\ calls["A"].did.acquire = 3

\* the caller's previous call was initialize() and was rejected with the
\* failure of resolveModelFile()
AfterFailedResolution(c) ==
  c.after = [ op |-> "initialize", status |-> "rejected",
              error |-> ProviderFailure("resolveModelFile") ]

\* C24: an initialize() call made after an initialize() call that was
\* rejected because resolveModelFile() failed is no no-op: it calls
\* getLlama() again and goes through the whole acquisition sequence, and
\* when every step succeeds it returns with the engine Ready.
C24_RetryAfterFailedResolution ==
  \A p \in Callers :
    LET c == calls[p]
    IN (c.op = "initialize" /\ AfterFailedResolution(c))
         => /\ c.did.acquire >= 1
            /\ c.pc \in AcquisitionSteps \cup {"done"}
            /\ c.status = "resolved" => (c.did = WholeSequence /\ Ready)
            /\ c.status = "rejected" => c.error \in AcquisitionFailures

C24_Witness ==
  /\ calls["A"].op = "initialize"
  /\ AfterFailedResolution(calls["A"])
  /\ calls["A"].status = "resolved"
  /\ Ready
  /\ n.getLlama = 2
  /\ n.resolveModelFile = 2
  /\ n.loadModel = 1

\* the model reference, lower-cased, is an alias / a canonical identifier
\* of the catalog
IsAlias(s) == s.text \in DOMAIN MODEL_ALIASES
IsCanonical(s) == s.text \in DOMAIN MODELS
\* the identifier is a key of the catalog in its own spelling
Catalogued(id) == id.upper = FALSE /\ id.text \in DOMAIN MODELS

\* C25: every alias of MODEL_ALIASES targets a key of MODELS, and
\* getModelInfo() of an engine constructed with an alias returns the
\* descriptor MODELS holds for the alias's target, which is what it
\* returns for an engine constructed with the target itself.
C25_AliasSameDescriptor ==
  /\ \A a \in DOMAIN MODEL_ALIASES : MODEL_ALIASES[a] \in DOMAIN MODELS
  /\ \A p \in Callers :
       LET c == calls[p]
       IN c.op = "getModelInfo"
            => /\ IsAlias(modelOption)
                    => c.info = MODELS[MODEL_ALIASES[modelOption.text]]
               /\ (IsCanonical(modelOption) /\ ~modelOption.upper)
                    => c.info = MODELS[modelOption.text]

C25_Witness ==
  /\ modelOption = Lit("qwen-coder")
  /\ calls["A"].op = "getModelInfo"
  /\ calls["A"].status = "resolved"
  /\ calls["A"].info = MODELS["qwen-2.5-coder-7b"]

\* C26: the constructor resolves every spelling of an alias to the
\* alias's target and every spelling of a canonical identifier to that
\* identifier in lower case, and keeps every other model reference as it
\* was given.
C26_CaseInsensitiveElsePreserved ==
  /\ IsAlias(modelOption) => modelId = Lit(MODEL_ALIASES[modelOption.text])
  /\ IsCanonical(modelOption) => modelId = Lit(modelOption.text)
  /\ (~IsAlias(modelOption) /\ ~IsCanonical(modelOption))
       => modelId = modelOption

\* C27: the locator initialize() hands to resolveModelFile() is
\* "hf:<repo>/<file>" of the catalog descriptor when the resolved
\* identifier is in the catalog, and the resolved identifier itself
\* otherwise.
C27_ArtifactLocator ==
  \A p \in Callers :
    LET c == calls[p]
    IN (c.op = "initialize" /\ c.did.acquire >= 2)
         => c.modelUri =
              (IF Catalogued(modelId)
                 THEN Exact("hf:" \o MODELS[modelId.text].repo \o "/"
                              \o MODELS[modelId.text].file)
                 ELSE modelId)

\* C28: for every model reference that is neither an alias nor a canonical
\* identifier getModelInfo() returns, without failing, a descriptor made
\* up for it: the name is the reference as given, the repo "custom", the
\* contextLength 4096 and the description "Custom model".
C28_CustomDescriptor ==
  \A p \in Callers :
    LET c == calls[p]
    IN (/\ c.op = "getModelInfo"
        /\ ~IsAlias(modelOption) /\ ~IsCanonical(modelOption))
         => /\ c.status = "resolved"
            /\ {"name", "repo", "contextLength", "description"}
                  \subseteq DOMAIN c.info
            /\ c.info.name = modelOption
            /\ c.info.repo = "custom"
            /\ c.info.contextLength = 4096
            /\ c.info.description = "Custom model"

\* C29: the resolved model identifier never changes, whatever is called:
\* after every step it is what it was, every GenerateResult returned
\* names it and every descriptor getModelInfo() returned is that of the
\* catalog for it.
C29_ModelIdFixed ==
  [][ /\ modelId' = modelId
      /\ \A p \in Callers :
           LET d == calls'[p]
           IN /\ (d.op \in GenOps /\ d.status = "resolved")
                   => d.value.model = modelId
              /\ (d.op = "getModelInfo" /\ Catalogued(modelId))
                   => d.info = MODELS[modelId.text] ]_vars

\* a generate() on a re-initialized engine still names the model the
\* constructor resolved
C29_Witness ==
  /\ modelOption = Str("qwen", TRUE)
  /\ calls["A"].op = "generate"
  /\ DirectlyAfter(calls["A"], "dispose")
  /\ calls["A"].status = "resolved"
  /\ calls["A"].value.model = Lit("qwen3-8b")

\* C30: getModelInfo() is a pure query: in whatever state it is called,
\* also while another call initializes the engine, generates or disposes,
\* it returns at once the catalog's descriptor of the model, starts no
\* initialization and leaves the handles, the session history, the
\* provider's objects and every other call as they are.
C30_GetModelInfoPure ==
  [][ \A p \in Callers :
        LET d == calls'[p]
        IN (d.op = "getModelInfo" /\ d # calls[p])
             => /\ d.status = "resolved"
                /\ d.did = NoEffects
                /\ Catalogued(modelId) => d.info = MODELS[modelId.text]
                /\ UNCHANGED << config, handles, chatHistory, n, objects,
                                disposed >>
                /\ \A q \in Callers \ {p} : calls'[q] = calls[q] ]_vars

\* getModelInfo() has returned the descriptor while the initialize() of
\* another caller awaits loadModel()
C30_Witness ==
  /\ calls["A"].op = "initialize"
  /\ calls["A"].pc = "loadModel"
  /\ calls["B"].op = "getModelInfo"
  /\ calls["B"].status = "resolved"
  /\ calls["B"].info = MODELS["gemma-3n-e4b"]
  /\ model = 0

\* C31: resetSession() on an engine that holds a session replaces the
\* session history by the empty one with one setChatHistory() call and
\* leaves the four handles as they are; on an engine without a session it
\* does nothing at all; either way it returns without an error, makes no
\* acquisition, prompt or dispose call and creates no object.
C31_ResetSession ==
  [][ \A p \in Callers :
        LET d == calls'[p]
        IN (d.op = "resetSession" /\ d # calls[p])
             => /\ d.status = "resolved"
                /\ UNCHANGED << config, handles, n, objects >>
                /\ d.did.acquire = 0 /\ d.did.prompt = 0 /\ d.did.dispose = 0
                /\ session # 0 => /\ chatHistory' = << >>
                                  /\ d.did.setChatHistory = 1
                /\ session = 0 => /\ UNCHANGED chatHistory
                                  /\ d.did = NoEffects ]_vars

\* resetSession() has emptied the history of a session whose last request
\* had set a system prompt
C31_Witness ==
  /\ calls["A"].op = "resetSession"
  /\ DirectlyAfter(calls["A"], "generate")
  /\ calls["A"].did.setChatHistory = 1
  /\ Ready
  /\ chatHistory = << >>
  /\ nCalls = 2

\* the aliases README.md, scripts/test-e2e.ts and the tests name, each with
\* the model it is said to stand for ("" where none is named)
DocumentedAliases ==
  [ a \in { "gemma", "gemma-large", "gemma-fast", "qwen", "qwen-coder",
            "deepseek", "minimax", "phi", "gpt-oss" } |->
      CASE a = "gemma" -> "gemma-3n-e4b"
        [] a = "gemma-large" -> "gemma-3-27b"
        [] a = "gemma-fast" -> ""
        [] a = "qwen" -> "qwen3-8b"
        [] a = "qwen-coder" -> "qwen-2.5-coder-7b"
        [] a = "deepseek" -> "deepseek-r1-7b"
        [] a = "minimax" -> "minimax-m2.1"
        [] a = "phi" -> "phi-4"
        [] a = "gpt-oss" -> "gpt-oss-20b" ]

\* C32: an engine constructed with an alias the documentation or the tests
\* name has a catalogued model as its resolved identifier, the one the
\* documentation names for the alias.
C32_DocumentedAliasesResolve ==
  \A a \in DOMAIN DocumentedAliases :
    modelOption = Lit(a)
      => /\ Catalogued(modelId)
         /\ DocumentedAliases[a] # "" => modelId = Lit(DocumentedAliases[a])

\* the acquisition steps of initialize() in the order of the code
AcquisitionOrder ==
  << "getLlama", "resolveModelFile", "loadModel", "createContext",
     "LlamaChatSession" >>
IsPrefix(s, t) == Len(s) <= Len(t) /\ s = SubSeq(t, 1, Len(s))

\* C33: the steps an initialize() call has started are a prefix of
\* getLlama, resolveModelFile, loadModel, createContext, session creation,
\* and a step that failed is the last one started; loadModel() is handed
\* the path resolveModelFile() returned (not the locator) and the
\* configured gpuLayers, -1 when none was configured; createContext() is
\* handed the model just loaded, a contextSize only when one was supplied
\* and then that one, and every supplied size other than 0; the session
\* is created on a sequence of the context just created, which the engine
\* then holds.
C33_AcquisitionOrder ==
  /\ modelOption \notin VariedReferences => gpuLayers = -1
  /\ \A p \in Callers :
       LET c == calls[p]
           started == Len(c.steps)
       IN c.op = "initialize"
            => /\ IsPrefix(c.steps, AcquisitionOrder)
               /\ (c.status = "rejected" /\ c.error \in AcquisitionFailures)
                    => c.error = ProviderFailure(c.steps[started])
               /\ started >= 3
                    => /\ c.loadOptions.modelPath = c.modelPath
                       /\ c.modelPath # c.modelUri
                       /\ c.loadOptions.gpuLayers = gpuLayers
               /\ started >= 4
                    => /\ c.contextOptions.model = Len(modelReleased)
                       /\ c.contextOptions.contextSize # None
                            => c.contextOptions.contextSize = contextSize
                       /\ (contextSize # None /\ contextSize # Some(0))
                            => c.contextOptions.contextSize = contextSize
               /\ started = 5
                    => /\ c.status = "resolved"
                       /\ c.sessionOptions.contextSequence = Len(ctxReleased)
                       /\ context = Len(ctxReleased)
                       /\ ctxModel[context] = model
                       /\ session # 0

\* initialize() of an engine built with a context size and no gpuLayers has
\* run through
C33_Witness ==
  /\ modelOption = Lit("gemma")
  /\ contextSize = Some(2048)
  /\ gpuLayers = -1
  /\ calls["A"].op = "initialize"
  /\ calls["A"].status = "resolved"
  /\ calls["A"].steps = AcquisitionOrder
  /\ calls["A"].loadOptions =
       [ modelPath |->
           Exact("/models/hf:unsloth/gemma-3n-E4B-it-GGUF/gemma-3n-E4B-it-Q4_K_M.gguf"),
         gpuLayers |-> -1 ]
  /\ calls["A"].contextOptions = [model |-> 1, contextSize |-> Some(2048)]
  /\ calls["A"].sessionOptions = [contextSequence |-> 1]

\* the entries of a history
Entries(h) == { h[i] : i \in DOMAIN h }
\* a message list of one user message
SingleUserMessage(messages) == Len(messages) = 1 /\ messages[1].role = "user"

\* C34: when generate() with a system prompt S has returned its result and
\* the caller's next call is chat() with a single user message, that call
\* makes no setChatHistory() call and leaves the session history as it is,
\* and the history its prompt is dispatched with holds the system entry S.
C34_SystemPromptSurvivesChat ==
  [][ \A p \in Callers :
        LET c == calls[p]
            d == calls'[p]
        IN (/\ c.op = "generate" /\ c.status = "resolved"
            /\ Truthy(c.request.systemPrompt)
            /\ d # c /\ d.op = "chat"
            /\ SingleUserMessage(d.messages))
             => /\ d.did.setChatHistory = 0
                /\ d.did.prompt = 1
                /\ UNCHANGED chatHistory
                /\ SystemEntry(c.request.systemPrompt[1])
                     \in Entries(d.promptHistory) ]_vars

\* the prompt of a chat() with one user message runs on the history the
\* generate() before it had set
C34_Witness ==
  /\ nCalls = 2
  /\ calls["A"].op = "chat"
  /\ DirectlyAfter(calls["A"], "generate")
  /\ SingleUserMessage(calls["A"].messages)
  /\ calls["A"].did = [NoEffects EXCEPT !.prompt = 1]
  /\ calls["A"].promptHistory = << SystemEntry("s") >>

\* the engine holds a model but neither context nor session
Stuck == model # 0 /\ context = 0 /\ session = 0

\* C35: a call that rejects with the failure of createContext() leaves the
\* engine holding a model but no context and no session; as long as the
\* engine is in that state with no call awaiting the provider and
\* dispose() is not called, every call leaves it there, an initialize()
\* call returns at once without any provider call, and a generate(),
\* generateStreaming() or chat() call goes through initialize() without
\* any provider call and rejects with "Failed to initialize engine",
\* having dispatched no prompt.
C35_StuckAfterContextFailure ==
  [][ \A p \in Callers :
        LET c == calls[p]
            d == calls'[p]
        IN /\ (d # c /\ d.status = "rejected"
                     /\ d.error = ProviderFailure("createContext"))
                => Stuck'
           /\ (Stuck /\ c.pc \in {"done", "initialized"} /\ d # c
                     /\ d.op # "dispose")
                => /\ Stuck'
                   /\ UNCHANGED << n, objects >>
                   /\ d.did.acquire = 0 /\ d.did.prompt = 0
                   /\ d.op = "initialize" => d.status = "resolved"
                   /\ (d.op \in GenOps /\ c.pc = "done")
                        => d.pc = "initialized"
                   /\ (d.op \in GenOps /\ c.pc = "initialized")
                        => /\ d.status = "rejected"
                           /\ d.error = FailedToInitialize ]_vars

\* createContext() failed in the first call, the initialize() after it
\* returned, and the generate() after that failed to initialize
C35_Witness ==
  /\ nCalls = 3
  /\ n = [OneSequence EXCEPT !.newSession = 0]
  /\ Stuck
  /\ calls["A"].op = "generate"
  /\ DirectlyAfter(calls["A"], "initialize")
  /\ calls["A"].status = "rejected"
  /\ calls["A"].error = FailedToInitialize
  /\ calls["A"].did = NoEffects

\* every model and every context the provider handed out was disposed
AllReleased ==
  /\ \A m \in DOMAIN modelReleased : modelReleased[m] >= 1
  /\ \A k \in DOMAIN ctxReleased : ctxReleased[k] >= 1
\* no call is running
NoneInFlight == \A q \in Callers : calls[q].pc = "done"
\* a dispose() call returns in this step
DisposeReturns ==
  \E p \in Callers :
    /\ calls'[p] # calls[p]
    /\ calls'[p].op = "dispose"
    /\ calls'[p].status = "resolved"

\* C36: whenever a dispose() call returns and no call is running any more,
\* every model and every context the provider handed to the engine has
\* been disposed.
C36_NoLeak ==
  [][ (DisposeReturns /\ NoneInFlight') => AllReleased' ]_vars

\* C37: when a dispose() call was made while an initialize() call was
\* suspended at an await and both have finished, the model, context and
\* session handles are null, and the initialize() call, if it failed,
\* failed with the failure of a provider call.
C37_DisposeWins ==
  \A p, q \in Callers :
    LET d == calls[p]
        c == calls[q]
    IN (/\ d.op = "dispose" /\ d.pc = "done" /\ "initialize" \in d.during
        /\ c.op = "initialize" /\ c.pc = "done")
         => /\ model = 0 /\ context = 0 /\ session = 0
            /\ c.status = "rejected" => c.error \in AcquisitionFailures

\* the context a session runs on: initialize() creates the k-th session on
\* a sequence of the k-th context
ContextOf(s) == s
\* a dispose() call has called dispose() of context k and awaits it
Releasing(k) ==
  \E q \in Callers : calls[q].pc = "contextDispose" /\ calls[q].target = k

\* C38: while a prompt of generate(), generateStreaming() or chat() runs,
\* the context of the session it runs on has not been released and no
\* dispose() call is releasing it.
C38_NoPromptOnReleasedContext ==
  \A p \in Callers :
    calls[p].pc = "prompt"
      => LET k == ContextOf(calls[p].promptSession)
         IN ctxReleased[k] = 0 /\ ~Releasing(k)

ContextDisposeFailure == ProviderFailure("context.dispose")

\* C39: the step in which dispose() rejects with the failure of
\* context.dispose() changes no handle and releases nothing, the call has
\* made that one dispose call only; and the dispose() call made next calls
\* dispose() of the same context again.
C39_ContextDisposeFailure ==
  [][ \A p \in Callers :
        LET c == calls[p]
            d == calls'[p]
        IN /\ (d # c /\ d.op = "dispose" /\ d.status = "rejected"
                     /\ d.error = ContextDisposeFailure)
                => /\ UNCHANGED << handles, objects >>
                   /\ context # 0 /\ context = d.target
                   /\ modelReleased[model] = 0
                   /\ d.did = [NoEffects EXCEPT !.dispose = 1]
           /\ (d # c /\ d.op = "dispose" /\ c.op = "dispose"
                     /\ c.status = "rejected" /\ c.error = ContextDisposeFailure)
                => /\ d.pc = "contextDispose"
                   /\ d.target = c.target
                   /\ d.did.dispose = 1 ]_vars

\* a second dispose() awaits context.dispose() after the first one failed
\* there, the engine still holding what it held
C39_Witness ==
  /\ nCalls = 3
  /\ calls["A"].op = "dispose"
  /\ calls["A"].after =
       [op |-> "dispose", status |-> "rejected", error |-> ContextDisposeFailure]
  /\ calls["A"].pc = "contextDispose"
  /\ calls["A"].target = context
  /\ Ready /\ llama # 0
  /\ NothingReleased

\* the history a dispatching call set last: the system entry of its
\* request when it has a system prompt, else (chat) the messages before
\* the last in the session's format
SetLast(d) ==
  IF Truthy(d.request.systemPrompt)
    THEN << SystemEntry(d.request.systemPrompt[1]) >>
    ELSE [ i \in 1..(Len(d.messages) - 1) |->
             LET msg == d.messages[i]
             IN CASE msg.role = "system" -> [type |-> "system", text |-> msg.content]
                  [] msg.role = "assistant" ->
                       [type |-> "model", response |-> << msg.content >>]
                  [] OTHER -> [type |-> "user", text |-> msg.content] ]
\* setChatHistory() calls the caller's running call had made before a step
SetBefore(c) == IF c.pc = "done" THEN 0 ELSE c.did.setChatHistory

\* C40: with overlapping callers, the step in which a generate(),
\* generateStreaming() or chat() call hands its prompt to the session is
\* the step in which it made its setChatHistory() calls, whatever the
\* other caller is doing; the prompt runs on the history the session has
\* after that step, which is, when the call replaced the history, exactly
\* what it set last.
C40_ReplaceAndDispatchAtomic ==
  [][ \A p \in Callers :
        LET c == calls[p]
            d == calls'[p]
        IN (d # c /\ d.op \in GenOps /\ d.pc = "prompt" /\ c.pc # "prompt")
             => /\ SetBefore(c) = 0
                /\ d.promptHistory = chatHistory'
                /\ d.did.setChatHistory >= 1 => d.promptHistory = SetLast(d)
                /\ d.did.setChatHistory = 0 => UNCHANGED chatHistory
                /\ \A q \in Callers \ {p} : calls'[q] = calls[q] ]_vars

\* a chat() has replaced the history and dispatched its prompt while the
\* prompt of the other caller's generate(), which had set a system
\* prompt, is running
C40_Witness ==
  /\ calls["A"].op = "generate"
  /\ calls["A"].pc = "prompt"
  /\ calls["A"].promptHistory = << SystemEntry("s") >>
  /\ calls["B"].op = "chat"
  /\ calls["B"].pc = "prompt"
  /\ "generate" \in calls["B"].during
  /\ calls["B"].did.setChatHistory = 1
  /\ calls["B"].promptHistory = << SystemEntry("a") >>
  /\ chatHistory = << SystemEntry("a") >>

====
